---- MODULE Spec2Model ----
(***************************************************************************)
(* A model of stubber (github.com/dradtke/stubber).                        *)
(*                                                                         *)
(* Several state machines share this module:                               *)
(*   Spec            one run of Main over several input packages: loading, *)
(*                   the rename pass, the duplicate-name pass, emission;   *)
(*   SpecRerun       two runs of Main over the same inputs;                *)
(*   SpecRender      Check and the template's helpers on one method;       *)
(*   SpecStub        a generated stub at run time: backing fields,         *)
(*                   delegating methods, call logs and their accessors;    *)
(*   SpecStubShared  a stub whose callers keep what the accessors return;  *)
(*   SpecStubNested  a stub whose backing functions call back or panic;    *)
(*   SpecStubConcurrent  a stub invoked by several goroutines at once.     *)
(*                                                                         *)
(* Go strings are sequences of one-character strings, so that              *)
(* concatenation, prefixing and capitalisation are computed, not assumed.  *)
(***************************************************************************)
EXTENDS Integers, Sequences, FiniteSets, TLC

\* ------------------------------------------------------------------ bounds
\* Largest number of input directories handed to Main.
MaxPkgs == 2
\* Largest number of -rename directives.
MaxRenames == 1
\* Largest number of trailing arguments passed to a variadic method.
MaxTrailing == 2
\* Largest number of invocations of a stub's methods in one run.
MaxCalls == 2
\* Largest number of parameters of a method whose rendering is examined.
MaxRenderParams == 2
\* Number of goroutines that invoke the stub concurrently.
MaxCallers == 2

\* ----------------------------------------------------------------- strings
EmptyString == << >>

Dot == <<".">>

\* Package names the input directories may carry (two directories may
\* hold packages of the same name).
PkgNames == { <<"a">>, <<"b">> }

\* Interface names a package may declare.
IfaceNames == { <<"X">>, <<"A", "X">> }

\* Names a rename directive may give: a new one, or one that is declared.
RenameTargets == { <<"N">>, <<"X">> }

\* The -types lists tried: none, or only X.
TypeLists == { {}, { <<"X">> } }

\* unicode.ToTitle on the ASCII letters the model uses.
ToTitle(c) ==
    CASE c = "a" -> "A"
      [] c = "b" -> "B"
      [] c = "d" -> "D"
      [] c = "n" -> "N"
      [] c = "s" -> "S"
      [] c = "u" -> "U"
      [] c = "w" -> "W"
      [] c = "x" -> "X"
      [] OTHER -> c

\* A mutant of PublicizePanics: publicize rejects every name.
PublicizePanicsAlways(name) == TRUE

\* publicize panics on the empty name.
PublicizePanics(name) == Len(name) = 0

\* publicize(name) for a name it does not panic on: "db" becomes "DB", any
\* other name gets its first character title-cased.
publicize(name) ==
    IF name = <<"d", "b">>
    THEN <<"D", "B">>
    ELSE <<ToTitle(name[1])>> \o Tail(name)

\* ------------------------------------------------------------------- state
VARIABLES
    inputDirs,  \* Main's inputDirs: what each directory holds
    types,      \* Main's types: the -types list
    renames,    \* Main's renames map, key "pkg.StubName" -> new name
    pc,         \* where Main is: load, rename, count, dedup, emit, done, aborted
    idx,        \* index of the package the load loop / emit loop is at
    pkgs,       \* Main's pkgs: the packages loaded so far
    illTyped,   \* whether a package loaded so far did not type-check
    defs,       \* Main's defs: stub name -> number of occurrences
    todo,       \* keys of defs the range loop has not visited yet
    written,    \* the outputs written so far, in order
    prev,       \* what an earlier run over the same inputs wrote: << >> or <<outputs>>
    stubIface,  \* the interface a stub is generated for: its Funcs
    rendered,   \* per method, the text the template's helpers rendered
    spc,        \* where the stub's caller is: gen, idle, append, delegate, panicked
    stubs,      \* per method, the backing field: NIL or a function
    calls,      \* per method, the call log (the unexported ...Calls field)
    cur,        \* the invocation in progress: method and arguments
    passed,     \* per method, the arguments of the invocations that got past the nil check
    ran,        \* per method, the arguments its backing function was run with
    panics,     \* number of invocations that hit a nil backing field
    dependencies,    \* Package.Dependencies: import paths Check recorded
    dependencyNames, \* Package.DependencyNames: package identifiers Check recorded
    stack,      \* the invocations suspended in a backing function, innermost last
    held,       \* the slice a caller got from a Calls accessor: << >> or <<[Method, Len]>>
    callers     \* per concurrent caller: where it is in the delegating method, and its locals

mainVars == <<inputDirs, types, renames, pc, idx, pkgs, illTyped, defs, todo, written, prev>>

stubVars ==
    <<stubIface, rendered, spc, stubs, calls, cur, passed, ran, panics,
      dependencies, dependencyNames, stack, held, callers>>

vars == <<mainVars, stubVars>>

\* --------------------------------------------------------------- helpers
\* All orders in which a map with key set S can be ranged over.
Orders(S) ==
    { s \in [1..Cardinality(S) -> S] : \A i, j \in DOMAIN s : s[i] = s[j] => i = j }

SeqsUpTo(S, n) == UNION { [1..k -> S] : k \in 1..n }

\* A Go map lookup: the zero value "" for a missing key.
Lookup(m, k) == IF k \in DOMAIN m THEN m[k] ELSE EmptyString

\* What an input directory holds: a package name and the interfaces it declares.
Units == [Name : PkgNames, Decls : SUBSET IfaceNames]

RenameKeys == { p \o Dot \o n : p \in PkgNames, n \in IfaceNames }

\* The maps main() can build from at most MaxRenames directives.
RenameMaps ==
    UNION { [K -> RenameTargets] :
              K \in { S \in SUBSET RenameKeys : Cardinality(S) <= MaxRenames } }

\* Positions (package, interface) of a package list.
Positions(ps) ==
    UNION { { <<k, j>> : j \in DOMAIN ps[k].Interfaces } : k \in DOMAIN ps }

IfaceAt(ps, pos) == ps[pos[1]].Interfaces[pos[2]]

\* ----------------------------------------------------------------- Check
\* Package.Check: one Interface per declaration that passes the -types
\* filter, StubName = Name, appended in the order the map of declarations
\* is ranged over.
\* A mutant of Included: the type list is not looked at.
IncludedAll(ts, decls) == decls

Included(ts, decls) == IF ts = {} THEN decls ELSE decls \cap ts

\* The methods the interfaces of the model's packages declare, by package
\* name and interface name: only the blank method, a method and the blank
\* method, none, one method.
DeclaredMethods(pkgName, name) ==
    CASE pkgName = <<"a">> /\ name = <<"X">> -> <<"_">>
      [] pkgName = <<"b">> /\ name = <<"X">> -> <<"M", "_">>
      [] pkgName = <<"a">> /\ name = <<"A", "X">> -> << >>
      [] OTHER -> <<"M">>

\* The loop over the methods: the blank method is skipped, every other
\* method is appended to Funcs.
IsExtracted(method) == method # "_"

ExtractFuncs(methods) == SelectSeq(methods, IsExtracted)

NewInterface(name, funcs) == [Name |-> name, StubName |-> name, Funcs |-> funcs]

CheckResults(unit, ts) ==
    { [Name |-> unit.Name,
       Interfaces |->
           [j \in DOMAIN order |->
               NewInterface(order[j],
                            ExtractFuncs(DeclaredMethods(unit.Name, order[j])))]] :
      order \in Orders(Included(ts, unit.Decls)) }

\* ------------------------------------------------------------ naming pass
QualName(pkg, iface) == pkg.Name \o Dot \o iface.StubName

\* A mutant of RenameInterface: the directive is looked up by the bare
\* stub name, without the package qualifier.
RenameInterfaceUnqualified(pkg, iface, rn) ==
    LET hits == { k \in DOMAIN rn :
                    \E p \in PkgNames : k = p \o Dot \o iface.StubName }
    IN  IF \E k \in hits : rn[k] # EmptyString
        THEN [iface EXCEPT !.StubName = rn[CHOOSE k \in hits : rn[k] # EmptyString]]
        ELSE iface

\* The body of the rename loop for one interface.
RenameInterface(pkg, iface, rn) ==
    LET newName == Lookup(rn, QualName(pkg, iface))
    IN  IF newName # EmptyString
        THEN [iface EXCEPT !.StubName = newName]
        ELSE iface

\* "Check for explicit renames": the two nested loops.
RenamePass(ps, rn) ==
    [k \in DOMAIN ps |->
        [ps[k] EXCEPT !.Interfaces =
            [j \in DOMAIN ps[k].Interfaces |->
                RenameInterface(ps[k], ps[k].Interfaces[j], rn)]]]

StubNames(ps) == { IfaceAt(ps, pos).StubName : pos \in Positions(ps) }

Occurrences(ps, name) ==
    Cardinality({ pos \in Positions(ps) : IfaceAt(ps, pos).StubName = name })

\* defs[iface.StubName] += 1 over all packages.
CountDefs(ps) == [name \in StubNames(ps) |-> Occurrences(ps, name)]

\* A mutant of IsDuplicate: the test is off by one, so that a name that
\* occurs once is treated as duplicated too.
IsDuplicateFromOne(count) == count > 0

\* "if count <= 1 { continue }".
IsDuplicate(count) == count > 1

\* The inner loops of the duplicate pass for one duplicated name: every
\* interface that carries the name now gets its package's public name
\* in front.
PrefixAll(ps, name) ==
    [k \in DOMAIN ps |->
        [ps[k] EXCEPT !.Interfaces =
            [j \in DOMAIN ps[k].Interfaces |->
                IF ps[k].Interfaces[j].StubName = name
                THEN [ps[k].Interfaces[j] EXCEPT
                        !.StubName = publicize(ps[k].Name) \o @]
                ELSE ps[k].Interfaces[j]]]]

\* ------------------------------------------------------------------ output
StubsSuffix == <<"_", "s", "t", "u", "b", "s", ".", "g", "o">>

\* What one iteration of the emit loop writes: the file name and the
\* stub types the rendered template declares.
Output(pkg) ==
    [File |-> pkg.Name \o StubsSuffix,
     Stubs |-> [j \in DOMAIN pkg.Interfaces |-> pkg.Interfaces[j].StubName]]

\* -------------------------------------------------------------------- Init
NIL == "nil"

\* No stub is generated or exercised during a run of Main.
NoStub ==
    /\ stubIface = << >>
    /\ rendered = << >>
    /\ spc = "none"
    /\ stubs = << >>
    /\ calls = << >>
    /\ cur = NIL
    /\ passed = << >>
    /\ ran = << >>
    /\ panics = 0
    /\ dependencies = {}
    /\ dependencyNames = {}
    /\ stack = << >>
    /\ held = << >>
    /\ callers = << >>

Init ==
    /\ inputDirs \in SeqsUpTo(Units, MaxPkgs)
    /\ types \in TypeLists
    /\ renames \in RenameMaps
    /\ pc = "load"
    /\ idx = 1
    /\ pkgs = << >>
    /\ illTyped = FALSE
    /\ defs = << >>
    /\ todo = {}
    /\ written = << >>
    /\ prev = << >>
    /\ NoStub

\* ----------------------------------------------------------------- actions
\* NewPackage and Check succeed for the directory at idx, and the package is
\* appended to pkgs.  wellTyped says whether the package type-checked: when
\* it did not, packages.Load still returns it with a nil error (its errors
\* sit in the package's Errors field, which NewPackage does not read).
LoadPackage(wellTyped) ==
    /\ \E pkg \in CheckResults(inputDirs[idx], types) : pkgs' = Append(pkgs, pkg)
    /\ illTyped' = (illTyped \/ ~wellTyped)
    /\ idx' = idx + 1
    /\ pc' = IF idx = Len(inputDirs) THEN "rename" ELSE "load"

\* packages.Load returns an error (or no package): NewPackage panics.
LoadFails ==
    /\ pc' = "aborted"
    /\ UNCHANGED <<idx, pkgs, illTyped>>

\* One iteration of the load loop: NewPackage, Check, append.
Load ==
    /\ pc = "load"
    /\ idx <= Len(inputDirs)
    /\ \/ LoadPackage(TRUE)
       \/ LoadPackage(FALSE)
       \/ LoadFails
    /\ UNCHANGED <<inputDirs, types, renames, defs, todo, written, prev, stubVars>>

\* The rename loops.
Rename ==
    /\ pc = "rename"
    /\ pkgs' = RenamePass(pkgs, renames)
    /\ pc' = "count"
    /\ UNCHANGED <<inputDirs, types, renames, idx, illTyped, defs, todo, written, prev, stubVars>>

\* The counting loops that fill defs.
Count ==
    /\ pc = "count"
    /\ defs' = CountDefs(pkgs)
    /\ todo' = DOMAIN CountDefs(pkgs)
    /\ pc' = "dedup"
    /\ UNCHANGED <<inputDirs, types, renames, idx, pkgs, illTyped, written, prev, stubVars>>

\* One iteration of "for name, count := range defs", in map order.
Dedup ==
    /\ pc = "dedup"
    /\ \E name \in todo :
         /\ pkgs' = IF IsDuplicate(defs[name]) THEN PrefixAll(pkgs, name) ELSE pkgs
         /\ todo' = todo \ {name}
    /\ UNCHANGED <<inputDirs, types, renames, pc, idx, illTyped, defs, written, prev, stubVars>>

\* A mutant of DedupDone: emission starts while defs still has unvisited names.
DedupDoneEarly == TRUE

\* The range loop over defs has visited every key.
DedupDone == todo = {}

\* The range loop over defs ends; the emit loop starts at the first package.
StartEmit ==
    /\ pc = "dedup"
    /\ DedupDone
    /\ pc' = "emit"
    /\ idx' = 1
    /\ UNCHANGED <<inputDirs, types, renames, pkgs, illTyped, defs, todo, written, prev, stubVars>>

\* t.Execute fails, format.Source fails or the write fails: log.Fatal.
EmitFailures == { "renderError", "formatError", "writeError" }

\* One iteration of the emit loop: render, format, write.
Emit ==
    /\ pc = "emit"
    /\ idx <= Len(pkgs)
    /\ \/ /\ written' = Append(written, Output(pkgs[idx]))
          /\ idx' = idx + 1
          /\ pc' = IF idx = Len(pkgs) THEN "done" ELSE "emit"
       \/ /\ \E failure \in EmitFailures : pc' = "aborted"
          /\ UNCHANGED <<idx, written>>
    /\ UNCHANGED <<inputDirs, types, renames, pkgs, illTyped, defs, todo, prev, stubVars>>

Next ==
    \/ Load
    \/ Rename
    \/ Count
    \/ Dedup
    \/ StartEmit
    \/ Emit

Spec == Init /\ [][Next]_vars

\* Main is run again over the same directories, type list and directives,
\* as the test does that compares a run's output with the stored output of
\* an earlier run: what the finished run wrote is kept, and the run starts
\* from scratch.
Rerun ==
    /\ pc = "done"
    /\ prev = << >>
    /\ prev' = <<written>>
    /\ pc' = "load"
    /\ idx' = 1
    /\ pkgs' = << >>
    /\ illTyped' = FALSE
    /\ defs' = << >>
    /\ todo' = {}
    /\ written' = << >>
    /\ UNCHANGED <<inputDirs, types, renames, stubVars>>

\* Two runs of Main, one after the other, over the same inputs.
SpecRerun == Init /\ [][Next \/ Rerun]_vars

\* ================================================================ rendering
\* Parameter names the stubbed methods use.
ParamIdents == { <<"d", "b">>, <<"s", "q", "l">> }

\* Types are a list of pointer/slice/map layers around a named base type
\* (a map layer is map[string]...); a base type is [Pkg, Path, Text], Pkg
\* being the identifier and Path the import path of the package that
\* defines it ("" for a predeclared type).
GoInt == [Layers |-> << >>, Pkg |-> EmptyString, Path |-> EmptyString, Text |-> <<"int">>]

Int64 == [Layers |-> << >>, Pkg |-> EmptyString, Path |-> EmptyString, Text |-> <<"int64">>]

SqlPath == <<"database/sql">>

SqlDB == [Layers |-> << >>, Pkg |-> <<"s", "q", "l">>, Path |-> SqlPath, Text |-> <<"sql", ".", "DB">>]

SqlDBPointer == [SqlDB EXCEPT !.Layers = <<"pointer">>]

Int64Slice == [Int64 EXCEPT !.Layers = <<"slice">>]

\* []sql.DB
SqlDBSlice == [SqlDB EXCEPT !.Layers = <<"slice">>]

\* map[string]*sql.DB
SqlDBPointerMap == [SqlDB EXCEPT !.Layers = <<"map", "pointer">>]

ParamTypes == { Int64, SqlDBPointer, Int64Slice }

IsSlice(t) == Len(t.Layers) > 0 /\ Head(t.Layers) = "slice"

IsPointer(t) == Len(t.Layers) > 0 /\ Head(t.Layers) = "pointer"

IsMap(t) == Len(t.Layers) > 0 /\ Head(t.Layers) = "map"

Elem(t) == [t EXCEPT !.Layers = Tail(@)]

RECURSIVE indirect(_)
\* indirect: strips pointer layers, and nothing else.
indirect(t) == IF IsPointer(t) THEN indirect(Elem(t)) ELSE t

RECURSIVE TypeString(_)
\* types.TypeString with Func.Qualifier: "[]" per slice layer, "*" per
\* pointer layer, "map[string]" per map layer, then the (package-qualified)
\* name.
TypeString(t) ==
    IF IsSlice(t) THEN <<"[]">> \o TypeString(Elem(t))
    ELSE IF IsPointer(t) THEN <<"*">> \o TypeString(Elem(t))
    ELSE IF IsMap(t) THEN <<"map[string]">> \o TypeString(Elem(t))
    ELSE t.Text

\* The signatures go/types can hand over: parameters with distinct names
\* out of ParamIdents, a method of two parameters naming the first one db
\* as Deactivate does; a variadic signature has a slice as its last
\* parameter.
ParamLists ==
    { ps \in UNION { [1..k -> [Name : ParamIdents, Type : ParamTypes]] :
                       k \in 0..Cardinality(ParamIdents) } :
        /\ \A i, j \in DOMAIN ps : ps[i].Name = ps[j].Name => i = j
        /\ Len(ps) > 1 => ps[1].Name = <<"d", "b">> }

Signatures ==
    { sig \in [Params : ParamLists, Variadic : BOOLEAN, Results : { << >> }] :
        sig.Variadic => (Len(sig.Params) > 0 /\ IsSlice(sig.Params[Len(sig.Params)].Type)) }

\* The second method of the stubbed interface: Account.Balance, no
\* parameters, one result.
Balance ==
    [Name |-> "Balance",
     Signature |-> [Params |-> << >>, Variadic |-> FALSE, Results |-> <<GoInt>>]]

\* The types Check looks at for a list of Funcs: every parameter type and
\* every result type, each after indirect.
CheckedTypes(funcs) ==
    UNION { { indirect(funcs[m].Signature.Params[i].Type) :
                i \in DOMAIN funcs[m].Signature.Params }
            \cup { indirect(funcs[m].Signature.Results[i]) :
                      i \in DOMAIN funcs[m].Signature.Results } : m \in DOMAIN funcs }

\* The type is a *types.Named of a package (not a slice, a map or a
\* predeclared type).
IsNamedOfPackage(t) == Len(t.Layers) = 0 /\ t.Pkg # EmptyString

\* The dependency names Check records for a list of Funcs: the package of
\* every parameter or result type that is, after indirect, a named type of
\* a package.
DependencyNames(funcs) ==
    { t.Pkg : t \in { u \in CheckedTypes(funcs) : IsNamedOfPackage(u) } }

\* The import paths Check records for the same types.
Dependencies(funcs) ==
    { t.Path : t \in { u \in CheckedTypes(funcs) : IsNamedOfPackage(u) } }

\* A mutant of ensureNoCollision: one underscore at most is put in front.
ensureNoCollisionOnce(name, depNames) ==
    IF name \notin depNames THEN name ELSE <<"_">> \o name

RECURSIVE ensureNoCollision(_, _)
\* ensureNoCollision: underscores are put in front until the name is free.
ensureNoCollision(name, depNames) ==
    IF name \notin depNames THEN name ELSE ensureNoCollision(<<"_">> \o name, depNames)

RECURSIVE Join(_, _)
\* strings.Join.
Join(parts, sep) ==
    IF Len(parts) = 0 THEN EmptyString
    ELSE IF Len(parts) = 1 THEN parts[1]
    ELSE parts[1] \o sep \o Join(Tail(parts), sep)

RECURSIVE Concat(_)
Concat(parts) == IF Len(parts) = 0 THEN EmptyString ELSE parts[1] \o Concat(Tail(parts))

NumParams(f) == Len(f.Signature.Params)

\* The identifier ParamsString and ParamNames give parameter i.
ParamIdent(f, i, deps) == ensureNoCollision(f.Signature.Params[i].Name, deps)

\* The field name ParamsStruct and ParamsStructValues give parameter i.
FieldName(f, i, deps) == ensureNoCollision(publicize(f.Signature.Params[i].Name), deps)

\* A mutant of ParamTypeString: every slice-typed parameter of a variadic
\* method is rendered with an ellipsis.
ParamTypeStringAnySlice(f, i) ==
    LET v == f.Signature.Params[i]
    IN  IF f.Signature.Variadic /\ IsSlice(v.Type)
        THEN <<"...">> \o TypeString(Elem(v.Type))
        ELSE TypeString(v.Type)

\* The type ParamsString renders for parameter i: "..." + element type for
\* the last parameter of a variadic signature.
ParamTypeString(f, i) ==
    LET v == f.Signature.Params[i]
    IN  IF f.Signature.Variadic /\ i = NumParams(f) /\ IsSlice(v.Type)
        THEN <<"...">> \o TypeString(Elem(v.Type))
        ELSE TypeString(v.Type)

ParamDecl(f, i, deps) == ParamIdent(f, i, deps) \o <<" ">> \o ParamTypeString(f, i)

\* Func.ParamsString.
ParamsString(f, deps) ==
    <<"(">> \o Join([i \in 1..NumParams(f) |-> ParamDecl(f, i, deps)], <<", ">>) \o <<")">>

StructField(f, i, deps) ==
    FieldName(f, i, deps) \o <<" ">> \o TypeString(f.Signature.Params[i].Type)

\* Func.ParamsStruct.
ParamsStruct(f, deps) ==
    <<"struct{">> \o Join([i \in 1..NumParams(f) |-> StructField(f, i, deps)], <<";">>) \o <<"}">>

\* Func.ParamsStructValues: "Key: value," per parameter.
ParamsStructValues(f, deps) ==
    Concat([i \in 1..NumParams(f) |->
              FieldName(f, i, deps) \o <<": ">> \o ParamIdent(f, i, deps) \o <<",">>])

\* Func.ParamNames.
ParamNames(f, deps) == Join([i \in 1..NumParams(f) |-> ParamIdent(f, i, deps)], <<", ">>)

\* What the template renders for one method.
Render(f, deps) ==
    [ParamsString |-> ParamsString(f, deps),
     ParamsStruct |-> ParamsStruct(f, deps),
     ParamsStructValues |-> ParamsStructValues(f, deps),
     ParamNames |-> ParamNames(f, deps)]

\* ============================================================ stub run time
Vals == { 0, 1 }

Methods == DOMAIN stubIface

\* The DependencyNames of the stubbed interface's package, as Check left them.
Deps == dependencyNames

\* The argument lists a caller can write for a method.
ArgLists(f) ==
    IF f.Signature.Variadic
    THEN { fixed \o trailing :
             fixed \in [1..(NumParams(f) - 1) -> Vals],
             trailing \in UNION { [1..k -> Vals] : k \in 0..MaxTrailing } }
    ELSE [1..NumParams(f) -> Vals]

\* The value parameter i is bound to when the method is entered: the i-th
\* argument, or for the variadic parameter the slice of trailing arguments.
ParamValue(f, i, args) ==
    IF f.Signature.Variadic /\ i = NumParams(f)
    THEN SubSeq(args, i, Len(args))
    ELSE args[i]

\* The method body's environment: parameter identifier -> value.
Bind(f, args, deps) ==
    [id \in { ParamIdent(f, i, deps) : i \in 1..NumParams(f) } |->
        ParamValue(f, CHOOSE i \in 1..NumParams(f) : ParamIdent(f, i, deps) = id, args)]

\* The composite literal ParamsStruct{ ParamsStructValues }: every field
\* holds the value of the identifier written after its key.
CallRecord(f, env, deps) ==
    [key \in { FieldName(f, i, deps) : i \in 1..NumParams(f) } |->
        env[ParamIdent(f, CHOOSE i \in 1..NumParams(f) : FieldName(f, i, deps) = key, deps)]]

\* The arguments of the delegating call "(s.XStub)(ParamNames)": the values
\* of the identifiers ParamNames lists, one argument per identifier.
CallArgs(f, env, deps) == [i \in 1..NumParams(f) |-> env[ParamIdent(f, i, deps)]]

\* A mutant of AppendEntry: the entry is put in front of the log.
AppendEntryInFront(log, entry) == <<entry>> \o log

\* A mutant of AppendEntry: the log is replaced by the new entry.
AppendEntryOverwrite(log, entry) == <<entry>>

\* s.xCalls = append(s.xCalls, entry).
AppendEntry(log, entry) == Append(log, entry)

\* A mutant of NilCheck: the body goes on without looking at the field.
NilCheckSkipped(field) == "append"

\* "if s.XStub == nil { panic(...) }": where the method goes next.
NilCheck(field) == IF field = NIL THEN "panicked" ELSE "append"

\* The ...Calls accessor returns the log field.
CallsAccessor(m) == calls[m]

TotalCalls == panics + Len(Concat(passed))

NoMain ==
    /\ inputDirs = << >>
    /\ types = {}
    /\ renames = << >>
    /\ pc = "none"
    /\ idx = 0
    /\ pkgs = << >>
    /\ illTyped = FALSE
    /\ defs = << >>
    /\ todo = {}
    /\ written = << >>
    /\ prev = << >>

\* A stub is generated for an interface of two methods: Do, whose signature
\* is any of Signatures, and Balance.
StubInit ==
    /\ NoMain
    /\ stubIface \in { <<[Name |-> "Do", Signature |-> sig], Balance>> : sig \in Signatures }
    /\ rendered = << >>
    /\ spc = "gen"
    /\ stubs = << >>
    /\ calls = << >>
    /\ cur = NIL
    /\ passed = << >>
    /\ ran = << >>
    /\ panics = 0
    /\ dependencies = Dependencies(stubIface)
    /\ dependencyNames = DependencyNames(stubIface)
    /\ stack = << >>
    /\ held = << >>
    /\ callers = << >>

\* The template is executed for the interface; a new stub value has nil
\* backing fields and nil logs.
Generate ==
    /\ spc = "gen"
    /\ rendered' = [m \in Methods |-> Render(stubIface[m], Deps)]
    /\ stubs' = [m \in Methods |-> NIL]
    /\ calls' = [m \in Methods |-> << >>]
    /\ passed' = [m \in Methods |-> << >>]
    /\ ran' = [m \in Methods |-> << >>]
    /\ spc' = "idle"
    /\ UNCHANGED <<mainVars, dependencies, dependencyNames, stack, held, callers, stubIface, cur, panics>>

\* The test assigns a backing field (a function, or nil again).
SetStub ==
    /\ spc = "idle"
    /\ \E m \in Methods, v \in {NIL, "func"} :
         /\ stubs[m] # v
         /\ stubs' = [stubs EXCEPT ![m] = v]
    /\ UNCHANGED <<mainVars, dependencies, dependencyNames, stack, held, callers, stubIface, rendered, spc, calls, cur, passed, ran, panics>>

\* A caller invokes a delegating method: the nil check.
Invoke ==
    /\ spc = "idle"
    /\ TotalCalls < MaxCalls
    /\ \E m \in Methods : \E args \in ArgLists(stubIface[m]) :
         /\ cur' = [Method |-> m, Args |-> args]
         /\ spc' = NilCheck(stubs[m])
         /\ IF NilCheck(stubs[m]) = "panicked"
            THEN /\ panics' = panics + 1
                 /\ UNCHANGED passed
            ELSE /\ passed' = [passed EXCEPT ![m] = Append(@, args)]
                 /\ UNCHANGED panics
    /\ UNCHANGED <<mainVars, dependencies, dependencyNames, stack, held, callers, stubIface, rendered, stubs, calls, ran>>

\* The panic unwinds to the caller, which recovers.
Recover ==
    /\ spc = "panicked"
    /\ spc' = "idle"
    /\ cur' = NIL
    /\ UNCHANGED <<mainVars, dependencies, dependencyNames, stack, held, callers, stubIface, rendered, stubs, calls, passed, ran, panics>>

\* The call record is appended to the method's log.
AppendCall ==
    /\ spc = "append"
    /\ LET m == cur.Method
           env == Bind(stubIface[m], cur.Args, Deps)
       IN  calls' = [calls EXCEPT ![m] = AppendEntry(@, CallRecord(stubIface[m], env, Deps))]
    /\ spc' = "delegate"
    /\ UNCHANGED <<mainVars, dependencies, dependencyNames, stack, held, callers, stubIface, rendered, stubs, cur, passed, ran, panics>>

\* The backing field is called and the method returns; calling a nil
\* function value panics.
Delegate ==
    /\ spc = "delegate"
    /\ IF stubs[cur.Method] = NIL
       THEN /\ spc' = "panicked"
            /\ UNCHANGED <<ran, cur>>
       ELSE /\ ran' = [ran EXCEPT ![cur.Method] =
                         Append(@, CallArgs(stubIface[cur.Method],
                                            Bind(stubIface[cur.Method], cur.Args, Deps), Deps))]
            /\ spc' = "idle"
            /\ cur' = NIL
    /\ UNCHANGED <<mainVars, dependencies, dependencyNames, stack, held, callers, stubIface, rendered, stubs, calls, passed, panics>>

StubNext ==
    \/ Generate
    \/ SetStub
    \/ Invoke
    \/ Recover
    \/ AppendCall
    \/ Delegate

SpecStub == StubInit /\ [][StubNext]_vars

\* The call record the delegating method m builds when entered with args.
RecordOfArgs(m, args) == CallRecord(stubIface[m], Bind(stubIface[m], args, Deps), Deps)

\* The call records a caller can build for a method.
Records(m) ==
    { CallRecord(stubIface[m], Bind(stubIface[m], args, Deps), Deps) :
        args \in ArgLists(stubIface[m]) }

\* A caller calls a Calls accessor and keeps what it returns: the log
\* field itself, a slice over the array the stub appends to.
GetCalls ==
    /\ spc = "idle"
    /\ held = << >>
    /\ \E m \in Methods : held' = <<[Method |-> m, Len |-> Len(CallsAccessor(m))]>>
    /\ UNCHANGED <<mainVars, dependencies, dependencyNames, stack, callers, stubIface, rendered, spc,
                   stubs, calls, cur, passed, ran, panics>>

\* The caller assigns to an element of the slice it holds.  Nothing was
\* appended since the accessor returned, so the slice and the log field
\* are the same slice over the same array.
OverwriteHeld ==
    /\ spc = "idle"
    /\ held # << >>
    /\ Len(calls[held[1].Method]) = held[1].Len
    /\ \E i \in 1..held[1].Len : \E e \in Records(held[1].Method) :
         /\ e # calls[held[1].Method][i]
         /\ calls' = [calls EXCEPT ![held[1].Method][i] = e]
    /\ UNCHANGED <<mainVars, dependencies, dependencyNames, stack, held, callers, stubIface, rendered,
                   spc, stubs, cur, passed, ran, panics>>

\* The caller appends to the slice it holds: the new element goes behind
\* the last entry of the log (in the shared array or in a new one), where
\* the log field, whose length stays, does not reach it; the caller goes on
\* with its own longer slice.
AppendHeld ==
    /\ spc = "idle"
    /\ held # << >>
    /\ Len(calls[held[1].Method]) = held[1].Len
    /\ held' = << >>
    /\ UNCHANGED <<mainVars, dependencies, dependencyNames, stack, callers, stubIface, rendered, spc,
                   stubs, calls, cur, passed, ran, panics>>

\* The stubs whose method Do has one parameter at most.
SharedInit ==
    /\ StubInit
    /\ NumParams(stubIface[1]) <= 1

\* A stub whose callers also keep and modify what the accessors return.
SpecStubShared == SharedInit /\ [][StubNext \/ GetCalls \/ OverwriteHeld \/ AppendHeld]_vars

\* ------------------------------------------------- backing functions that
\* call back into the stub or panic
\*
\* The backing field is called: the backing function starts to run with
\* the arguments of the delegating call.  Ord is the number of invocations
\* of the method that got past the nil check so far, this one included.
StartBacking ==
    /\ spc = "delegate"
    /\ stubs[cur.Method] # NIL
    /\ ran' = [ran EXCEPT ![cur.Method] =
                 Append(@, CallArgs(stubIface[cur.Method],
                                    Bind(stubIface[cur.Method], cur.Args, Deps), Deps))]
    /\ cur' = [Method |-> cur.Method, Args |-> cur.Args, Ord |-> Len(passed[cur.Method])]
    /\ spc' = "running"
    /\ UNCHANGED <<mainVars, dependencies, dependencyNames, stack, held, callers, stubIface, rendered,
                   stubs, calls, passed, panics>>

\* The running backing function invokes a delegating method of the same
\* stub: its own invocation waits on the stack.
NestedInvoke ==
    /\ spc = "running"
    /\ TotalCalls < MaxCalls
    /\ \E m \in Methods : \E args \in ArgLists(stubIface[m]) :
         /\ stack' = Append(stack, cur)
         /\ cur' = [Method |-> m, Args |-> args]
         /\ spc' = NilCheck(stubs[m])
         /\ IF NilCheck(stubs[m]) = "panicked"
            THEN /\ panics' = panics + 1
                 /\ UNCHANGED passed
            ELSE /\ passed' = [passed EXCEPT ![m] = Append(@, args)]
                 /\ UNCHANGED panics
    /\ UNCHANGED <<mainVars, dependencies, dependencyNames, held, callers, stubIface, rendered, stubs,
                   calls, ran>>

\* The backing function returns, and with it the delegating method: the
\* caller goes on, which is the backing function below it on the stack or
\* the test.
BackingReturns ==
    /\ spc = "running"
    /\ IF stack = << >>
       THEN /\ spc' = "idle"
            /\ cur' = NIL
            /\ UNCHANGED stack
       ELSE /\ spc' = "running"
            /\ cur' = stack[Len(stack)]
            /\ stack' = SubSeq(stack, 1, Len(stack) - 1)
    /\ UNCHANGED <<mainVars, dependencies, dependencyNames, held, callers, stubIface, rendered, stubs,
                   calls, passed, ran, panics>>

\* The backing function panics.
BackingPanics ==
    /\ spc = "running"
    /\ spc' = "panicked"
    /\ UNCHANGED <<mainVars, dependencies, dependencyNames, stack, held, callers, stubIface, rendered,
                   stubs, calls, cur, passed, ran, panics>>

\* A panic unwinds every invocation in progress up to the test, which
\* recovers.
Unwind ==
    /\ spc = "panicked"
    /\ spc' = "idle"
    /\ cur' = NIL
    /\ stack' = << >>
    /\ UNCHANGED <<mainVars, dependencies, dependencyNames, held, callers, stubIface, rendered, stubs,
                   calls, passed, ran, panics>>

NestedNext ==
    \/ Generate
    \/ SetStub
    \/ Invoke
    \/ AppendCall
    \/ StartBacking
    \/ NestedInvoke
    \/ BackingReturns
    \/ BackingPanics
    \/ Unwind

\* A stub whose backing functions may call back into the stub and may panic.
SpecStubNested == SharedInit /\ [][NestedNext]_vars

\* ---------------------------------------- several goroutines invoke the stub
Callers == 1..MaxCallers

\* A goroutine that has not invoked anything yet.
Ready == [PC |-> "ready", Method |-> 0, Args |-> << >>, Seen |-> << >>]

\* The test sets backing fields before it starts the goroutines.
Configure ==
    /\ callers = << >>
    /\ SetStub
    /\ UNCHANGED callers

\* The test starts the goroutines.
StartCallers ==
    /\ spc = "idle"
    /\ callers = << >>
    /\ callers' = [c \in Callers |-> Ready]
    /\ UNCHANGED <<mainVars, dependencies, dependencyNames, stack, held, stubIface, rendered,
                   spc, stubs, calls, cur, passed, ran, panics>>

\* A goroutine enters a delegating method: the nil check.
CallerInvoke(c) ==
    /\ callers[c].PC = "ready"
    /\ \E m \in Methods : \E args \in ArgLists(stubIface[m]) :
         IF NilCheck(stubs[m]) = "panicked"
         THEN /\ callers' = [callers EXCEPT ![c] = [@ EXCEPT !.PC = "panicked",
                                                             !.Method = m, !.Args = args]]
              /\ panics' = panics + 1
              /\ UNCHANGED passed
         ELSE /\ callers' = [callers EXCEPT ![c] = [@ EXCEPT !.PC = "read",
                                                             !.Method = m, !.Args = args]]
              /\ passed' = [passed EXCEPT ![m] = Append(@, args)]
              /\ UNCHANGED panics
    /\ UNCHANGED <<mainVars, dependencies, dependencyNames, stack, held, stubIface, rendered,
                   spc, stubs, calls, cur, ran>>

\* The append statement, first half: the argument s.xCalls is read.  No
\* lock is held, so other goroutines may run before the assignment.
CallerRead(c) ==
    /\ callers[c].PC = "read"
    /\ callers' = [callers EXCEPT ![c] = [@ EXCEPT !.PC = "write",
                                                   !.Seen = calls[callers[c].Method]]]
    /\ UNCHANGED <<mainVars, dependencies, dependencyNames, stack, held, stubIface, rendered,
                   spc, stubs, calls, cur, passed, ran, panics>>

\* The append statement, second half: the slice append returned, the one
\* read with the new entry behind it, is assigned to s.xCalls.
CallerWrite(c) ==
    /\ callers[c].PC = "write"
    /\ calls' = [calls EXCEPT ![callers[c].Method] =
                   AppendEntry(callers[c].Seen,
                               RecordOfArgs(callers[c].Method, callers[c].Args))]
    /\ callers' = [callers EXCEPT ![c] = [@ EXCEPT !.PC = "delegate"]]
    /\ UNCHANGED <<mainVars, dependencies, dependencyNames, stack, held, stubIface, rendered,
                   spc, stubs, cur, passed, ran, panics>>

\* The backing field is called and the method returns.
CallerDelegate(c) ==
    /\ callers[c].PC = "delegate"
    /\ ran' = [ran EXCEPT ![callers[c].Method] =
                 Append(@, CallArgs(stubIface[callers[c].Method],
                                    Bind(stubIface[callers[c].Method], callers[c].Args, Deps),
                                    Deps))]
    /\ callers' = [callers EXCEPT ![c] = [@ EXCEPT !.PC = "returned"]]
    /\ UNCHANGED <<mainVars, dependencies, dependencyNames, stack, held, stubIface, rendered,
                   spc, stubs, calls, cur, passed, panics>>

CallerStep ==
    \E c \in DOMAIN callers :
        \/ CallerInvoke(c)
        \/ CallerRead(c)
        \/ CallerWrite(c)
        \/ CallerDelegate(c)

ConcurrentNext ==
    \/ Generate
    \/ Configure
    \/ StartCallers
    \/ CallerStep

\* A stub whose delegating methods are invoked by several goroutines at once.
SpecStubConcurrent == SharedInit /\ [][ConcurrentNext]_vars

\* ============================================================ rendering run
\* Check and the template's helpers applied to one method, for every
\* signature of a bounded family.
\*
\* Names a parameter may be declared with: none (go/types then gives the
\* name ""), or an identifier.
RenderIdents ==
    { EmptyString, <<"s", "q", "l">>, <<"_", "s", "q", "l">>, <<"d", "b">>, <<"D", "B">> }

RenderTypes == { Int64, SqlDBPointer, Int64Slice, SqlDBSlice, SqlDBPointerMap }

RenderResults == { << >>, <<SqlDBSlice>> }

\* Parameter lists Go accepts: all parameters unnamed, or all named with
\* pairwise distinct names.
RenderParamLists ==
    { ps \in UNION { [1..k -> [Name : RenderIdents, Type : RenderTypes]] :
                       k \in 0..MaxRenderParams } :
        \/ \A i \in DOMAIN ps : ps[i].Name = EmptyString
        \/ /\ \A i \in DOMAIN ps : ps[i].Name # EmptyString
           /\ \A i, j \in DOMAIN ps : ps[i].Name = ps[j].Name => i = j }

RenderSignatures ==
    { sig \in [Params : RenderParamLists, Variadic : BOOLEAN, Results : RenderResults] :
        sig.Variadic => (Len(sig.Params) > 0 /\ IsSlice(sig.Params[Len(sig.Params)].Type)) }

\* The import path of the input package itself.
OwnPath == <<"example/app">>

\* Packages the other methods and interfaces of the input package may
\* have made Check record.
OtherPackages ==
    { [Pkg |-> <<"s", "q", "l">>, Path |-> SqlPath],
      [Pkg |-> <<"_", "s", "q", "l">>, Path |-> <<"example/_sql">>],
      [Pkg |-> <<"D", "B">>, Path |-> <<"example/DB">>] }

\* Check has recorded the input package's own path and what the other
\* methods depend on; the method Do is about to be looked at.
RenderInit ==
    /\ NoMain
    /\ stubIface \in { <<[Name |-> "Do", Signature |-> sig]>> : sig \in RenderSignatures }
    /\ \E others \in SUBSET OtherPackages :
         /\ dependencies = {OwnPath} \cup { o.Path : o \in others }
         /\ dependencyNames = { o.Pkg : o \in others }
    /\ rendered = << >>
    /\ spc = "check"
    /\ stubs = << >>
    /\ calls = << >>
    /\ cur = NIL
    /\ passed = << >>
    /\ ran = << >>
    /\ panics = 0
    /\ stack = << >>
    /\ held = << >>
    /\ callers = << >>

\* Check's two loops over the parameters and the results of the method.
CheckFuncs ==
    /\ spc = "check"
    /\ dependencies' = dependencies \cup Dependencies(stubIface)
    /\ dependencyNames' = dependencyNames \cup DependencyNames(stubIface)
    /\ spc' = "exec"
    /\ UNCHANGED <<mainVars, stubIface, rendered, stubs, calls, cur, passed, ran, panics, stack, held, callers>>

\* Rendering the method calls publicize on every parameter name.
RenderPanics(f) ==
    \E i \in 1..NumParams(f) : PublicizePanics(f.Signature.Params[i].Name)

\* t.Execute for the method: the helpers render it, or publicize panics
\* and the run ends without output.
Execute ==
    /\ spc = "exec"
    /\ IF \E m \in Methods : RenderPanics(stubIface[m])
       THEN /\ spc' = "renderError"
            /\ UNCHANGED rendered
       ELSE /\ spc' = "rendered"
            /\ rendered' = [m \in Methods |-> Render(stubIface[m], dependencyNames)]
    /\ UNCHANGED <<mainVars, stubIface, dependencies, dependencyNames, stubs, calls, cur,
                   passed, ran, panics, stack, held, callers>>

RenderNext ==
    \/ CheckFuncs
    \/ Execute

SpecRender == RenderInit /\ [][RenderNext]_vars

\* ------------------------------------------------------- naming: properties
NamingFinished == pc \in {"emit", "done"}

PkgOf(pos) == pkgs[pos[1]]

\* The key under which a rename directive for the interface at pos is
\* looked up: Check sets StubName to Name, and the rename pass visits each
\* interface once.
DirectiveKey(pos) == PkgOf(pos).Name \o Dot \o IfaceAt(pkgs, pos).Name

Directive(pos) == Lookup(renames, DirectiveKey(pos))

HasPrefix(s, p) == Len(p) <= Len(s) /\ SubSeq(s, 1, Len(p)) = p

HasSuffix(s, x) == Len(x) <= Len(s) /\ SubSeq(s, Len(s) - Len(x) + 1, Len(s)) = x

\* C1: once the rename pass and the duplicate-name pass have run over the
\* interfaces of all input packages, no two interfaces of the combined
\* collection have the same StubName.
C1_StubNamesUnique ==
    NamingFinished =>
        \A p, q \in Positions(pkgs) :
            p # q => IfaceAt(pkgs, p).StubName # IfaceAt(pkgs, q).StubName

\* C2: with no rename directive, two interfaces of the same name declared by
\* two different input units both end the naming pass with the stub name
\* publicize(owning package name) + interface name, and the two stub names
\* differ.
C2_BothQualifiedAndDistinct ==
    (NamingFinished /\ DOMAIN renames = {}) =>
        \A p, q \in Positions(pkgs) :
            (p[1] # q[1] /\ IfaceAt(pkgs, p).Name = IfaceAt(pkgs, q).Name) =>
                /\ IfaceAt(pkgs, p).StubName =
                       publicize(PkgOf(p).Name) \o IfaceAt(pkgs, p).Name
                /\ IfaceAt(pkgs, q).StubName =
                       publicize(PkgOf(q).Name) \o IfaceAt(pkgs, q).Name
                /\ IfaceAt(pkgs, p).StubName # IfaceAt(pkgs, q).StubName

\* C3 as stated: an interface whose key has a rename directive (giving a
\* non-empty name) has exactly the directive's name when the whole naming
\* pass has finished.
C3_DirectiveAlwaysWins ==
    NamingFinished =>
        \A p \in Positions(pkgs) :
            Directive(p) # EmptyString => IfaceAt(pkgs, p).StubName = Directive(p)

\* C3, amended: renames are applied first, so an interface whose key has a
\* directive giving a non-empty name carries that name when the rename pass
\* ends; when the whole naming pass has finished it still carries exactly
\* that name if the name occurs once among the stub names as they stood
\* after the renames.
C3_DirectiveWinsUnlessDuplicated ==
    \A p \in Positions(pkgs) :
        Directive(p) # EmptyString =>
            /\ pc = "count" => IfaceAt(pkgs, p).StubName = Directive(p)
            /\ (NamingFinished /\ defs[Directive(p)] = 1) =>
                   IfaceAt(pkgs, p).StubName = Directive(p)

\* A finished run in which a directive renamed an interface to a name that
\* nothing else carries, and the interface still has it.
C3_Witness ==
    /\ pc = "done"
    /\ \E p \in Positions(pkgs) :
         /\ Directive(p) # EmptyString
         /\ Directive(p) # IfaceAt(pkgs, p).Name
         /\ defs[Directive(p)] = 1
         /\ IfaceAt(pkgs, p).StubName = Directive(p)
    /\ \E n \in DOMAIN defs : defs[n] > 1

\* C4: an interface whose key has no rename directive is left alone by the
\* rename pass, ends the naming pass with its default stub name when that
\* name occurs once after the renames, and is package-prefixed only when
\* the name still occurs more than once after the renames.
C4_OnlyRenamedInterfaceAffected ==
    \A p \in Positions(pkgs) :
        Directive(p) = EmptyString =>
            LET iface == IfaceAt(pkgs, p)
            IN  /\ pc = "count" => iface.StubName = iface.Name
                /\ NamingFinished =>
                     IF defs[iface.Name] > 1
                     THEN /\ iface.StubName # iface.Name
                          /\ HasPrefix(iface.StubName, publicize(PkgOf(p).Name))
                          /\ HasSuffix(iface.StubName, iface.Name)
                     ELSE iface.StubName = iface.Name

\* Two units declare the same name, the only directive renames one of the
\* two interfaces, and the other ends the run with its default name.
C4_Witness ==
    /\ pc = "done"
    /\ Cardinality(DOMAIN renames) = 1
    /\ \E p, q \in Positions(pkgs) :
         /\ p[1] # q[1]
         /\ IfaceAt(pkgs, p).Name = IfaceAt(pkgs, q).Name
         /\ Directive(p) # EmptyString
         /\ IfaceAt(pkgs, p).StubName = Directive(p)
         /\ Directive(p) # IfaceAt(pkgs, p).Name
         /\ Directive(q) = EmptyString
         /\ IfaceAt(pkgs, q).StubName = IfaceAt(pkgs, q).Name

\* ----------------------------------------------------- the run: properties
\* C8: a run has no partial success: a run that aborts has written nothing,
\* and a run that ends has written the stubs of every requested package.
C8_NoPartialSuccess ==
    /\ pc = "aborted" => written = << >>
    /\ pc = "done" => Len(written) = Len(inputDirs)

\* The packages as Check leaves them: every StubName is the declared name.
Fresh(ps) ==
    [k \in DOMAIN ps |->
        [ps[k] EXCEPT !.Interfaces =
            [j \in DOMAIN ps[k].Interfaces |->
                NewInterface(ps[k].Interfaces[j].Name, ps[k].Interfaces[j].Funcs)]]]

\* Every input package is loaded, defs counts the stub names of all of
\* them as they stood after the renames, and the range loop over defs has
\* visited every name.
NamingComplete ==
    /\ Len(pkgs) = Len(inputDirs)
    /\ defs = CountDefs(RenamePass(Fresh(pkgs), renames))
    /\ todo = {}

\* C9: before the stub of any package is rendered or written, every input
\* package has been loaded and the rename pass and the duplicate-name pass
\* have finished over the interfaces of all packages; no StubName changes
\* once emission has started.
C9_NamingBeforeEmission ==
    [][ /\ pc' = "emit" => pc \in {"dedup", "emit"}
        /\ (pc = "dedup" /\ pc' = "emit") => NamingComplete'
        /\ written' # written => pc = "emit"
        /\ (pc \in {"emit", "done"} \/ written # << >>) =>
               (pkgs' = pkgs /\ defs' = defs /\ todo' = todo)
      ]_vars

\* A finished run over two packages in which the duplicate-name pass
\* prefixed a name before both outputs were written.
C9_Witness ==
    /\ pc = "done"
    /\ Len(written) = 2
    /\ \E p \in Positions(pkgs) : IfaceAt(pkgs, p).StubName # IfaceAt(pkgs, p).Name
    /\ \E n \in DOMAIN defs : defs[n] > 1

\* C10: if an input package fails to resolve or does not type-check, the
\* run aborts there: no interface of that package is extracted (the package
\* list stays as it was) and nothing is written for any input package.
C10_FailedInputAbortsRun ==
    [][ /\ (illTyped' /\ ~illTyped) => (pc' = "aborted" /\ pkgs' = pkgs)
        /\ illTyped => written' = << >>
      ]_vars

\* ------------------------------------------------------- stubs: properties
\* The fields of a log entry, read in the order ParamsStruct declares them.
EntryArgs(f, entry) == [i \in 1..NumParams(f) |-> entry[FieldName(f, i, Deps)]]

\* The arguments of an invocation, one value per parameter.
ArgsByParam(f, args) == [i \in 1..NumParams(f) |-> ParamValue(f, i, args)]

Occurs(tok, text) == Cardinality({ i \in DOMAIN text : text[i] = tok })

\* C5: invoking a delegating method while its backing field is nil panics
\* before any backing function runs and before anything is appended to a
\* call log, and nothing is appended or run until the panic has unwound.
C5_NilStubPanicsFirst ==
    [][ /\ (spc = "idle" /\ spc' \in {"append", "panicked", "delegate"}
                /\ stubs[cur'.Method] = NIL) =>
               (spc' = "panicked" /\ calls' = calls /\ ran' = ran /\ passed' = passed)
        /\ spc = "panicked" => (calls' = calls /\ ran' = ran)
      ]_vars

\* A method whose log already holds a call is invoked again after its
\* backing field was set back to nil, while the other backing field is set.
C5_Witness ==
    /\ spc = "panicked"
    /\ stubs[cur.Method] = NIL
    /\ Len(calls[cur.Method]) > 0
    /\ \E m \in Methods : m # cur.Method /\ stubs[m] # NIL

\* C6: after any sequence of invocations of a delegating method whose
\* backing field is set, the Calls accessor returns one entry per
\* invocation, entry i holding the arguments of the i-th invocation in
\* parameter order; a method without parameters gets one empty entry per
\* invocation.
C6_LogMatchesInvocations ==
    spc = "idle" =>
        \A m \in Methods :
            /\ Len(CallsAccessor(m)) = Len(passed[m])
            /\ \A i \in DOMAIN passed[m] :
                 /\ EntryArgs(stubIface[m], CallsAccessor(m)[i]) =
                        ArgsByParam(stubIface[m], passed[m][i])
                 /\ NumParams(stubIface[m]) = 0 => CallsAccessor(m)[i] = << >>

\* Two finished invocations of a two-parameter method with different
\* arguments.
C6_Witness ==
    /\ spc = "idle"
    /\ \E m \in Methods :
         /\ NumParams(stubIface[m]) = 2
         /\ Len(ran[m]) = 2
         /\ Len(CallsAccessor(m)) = 2
         /\ CallsAccessor(m)[1] # CallsAccessor(m)[2]

\* C7: for a method whose last parameter is variadic, the rendered signature
\* has the ellipsis form ...T for that parameter and no other ellipsis, the
\* call record declares the field as []T, and an invocation records one log
\* entry whose variadic field is the sequence of the trailing arguments
\* passed, in order.
C7_VariadicRoundTrip ==
    spc \in {"idle", "append", "delegate", "panicked"} =>
        \A m \in Methods :
            LET f == stubIface[m]
                n == NumParams(f)
                elem == TypeString(Elem(f.Signature.Params[n].Type))
            IN  f.Signature.Variadic =>
                  /\ HasSuffix(rendered[m].ParamsString,
                               ParamIdent(f, n, Deps) \o <<" ", "...">> \o elem \o <<")">>)
                  /\ Occurs("...", rendered[m].ParamsString) = 1
                  /\ HasSuffix(rendered[m].ParamsStruct,
                               FieldName(f, n, Deps) \o <<" ", "[]">> \o elem \o <<"}">>)
                  /\ Occurs("...", rendered[m].ParamsStruct) = 0
                  /\ (spc = "delegate" /\ cur.Method = m) =>
                        /\ Len(calls[m]) = Len(passed[m])
                        /\ calls[m][Len(calls[m])][FieldName(f, n, Deps)] =
                               SubSeq(cur.Args, n, Len(cur.Args))

\* A variadic method with a slice as its first parameter too, invoked once
\* without and once with two trailing arguments.
C7_Witness ==
    /\ spc = "delegate"
    /\ LET f == stubIface[cur.Method]
           n == NumParams(f)
       IN  /\ f.Signature.Variadic
           /\ n = 2
           /\ IsSlice(f.Signature.Params[1].Type)
           /\ Len(calls[cur.Method]) = 2
           /\ calls[cur.Method][1][FieldName(f, n, Deps)] = << >>
           /\ calls[cur.Method][2][FieldName(f, n, Deps)] = <<1, 0>>

\* ------------------------------------------------- determinism: properties
\* C11: generation is deterministic: when Main has been run twice over the
\* same input packages, type list and rename directives, the second run
\* writes what the first one wrote: the same outputs, with the same stub
\* names and the stubs in the same order.
C11_SameOutputOnRerun ==
    (pc = "done" /\ prev # << >>) => written = prev[1]

\* --------------------------------------------------- rendering: properties
RECURSIVE SplitOn(_, _)
\* strings.Split for a separator that is one token of the text.
SplitOn(text, sep) ==
    IF \A k \in DOMAIN text : text[k] # sep
    THEN <<text>>
    ELSE LET k == CHOOSE i \in DOMAIN text :
                    text[i] = sep /\ \A j \in 1..(i - 1) : text[j] # sep
         IN  <<SubSeq(text, 1, k - 1)>> \o SplitOn(SubSeq(text, k + 1, Len(text)), sep)

\* The text in front of the first separator.
Before(text, sep) == SplitOn(text, sep)[1]

\* A text without its first and its last token.
Inner(text) == SubSeq(text, 2, Len(text) - 1)

\* The identifiers a rendered signature "(name type, ...)" declares.
DeclaredIdents(text) ==
    IF Inner(text) = << >> THEN << >>
    ELSE LET decls == SplitOn(Inner(text), ", ")
         IN  [i \in DOMAIN decls |-> Before(decls[i], " ")]

\* The field names a rendered "struct{Name type;...}" declares.
DeclaredFields(text) ==
    IF Inner(text) = << >> THEN << >>
    ELSE LET fields == SplitOn(Inner(text), ";")
         IN  [i \in DOMAIN fields |-> Before(fields[i], " ")]

\* The "Key: value," pairs of a rendered composite literal body.
LiteralPairs(text) ==
    LET pieces == SplitOn(text, ",")
    IN  [i \in 1..(Len(pieces) - 1) |-> SplitOn(pieces[i], ": ")]

\* The arguments of a rendered delegating call "a, b".
CallIdents(text) == IF text = << >> THEN << >> ELSE SplitOn(text, ", ")

Unnamed(f) == { i \in 1..NumParams(f) : f.Signature.Params[i].Name = EmptyString }

RenderDone == spc \in {"rendered", "renderError"}

Underscores(k) == [i \in 1..k |-> "_"]

\* The text is the name with the smallest number of underscores in front
\* for which it is not in the set.
MinimallyEscaped(text, name, depNames) ==
    /\ text \notin depNames
    /\ \E k \in 0..Len(text) :
         /\ text = Underscores(k) \o name
         /\ \A j \in 0..(k - 1) : Underscores(j) \o name \in depNames

\* C13: ensureNoCollision returns the name with the smallest number of
\* underscores prepended for which the result is not a dependency package
\* identifier; so in a rendered method every parameter identifier of
\* ParamsString, ParamNames and ParamsStructValues and every field name of
\* ParamsStruct and ParamsStructValues is the minimally escaped name, and
\* none of them equals a dependency package identifier.
C13_EscapedMinimally ==
    spc = "rendered" =>
        \A m \in Methods :
            LET f == stubIface[m]
                ids == DeclaredIdents(rendered[m].ParamsString)
                fields == DeclaredFields(rendered[m].ParamsStruct)
                pairs == LiteralPairs(rendered[m].ParamsStructValues)
                args == CallIdents(rendered[m].ParamNames)
            IN  /\ Len(ids) = NumParams(f)
                /\ Len(fields) = NumParams(f)
                /\ Len(pairs) = NumParams(f)
                /\ Len(args) = NumParams(f)
                /\ \A i \in 1..NumParams(f) :
                     LET name == f.Signature.Params[i].Name
                     IN  /\ MinimallyEscaped(ids[i], name, dependencyNames)
                         /\ MinimallyEscaped(args[i], name, dependencyNames)
                         /\ MinimallyEscaped(pairs[i][2], name, dependencyNames)
                         /\ MinimallyEscaped(fields[i], publicize(name), dependencyNames)
                         /\ MinimallyEscaped(pairs[i][1], publicize(name), dependencyNames)

\* A parameter sql needs two underscores, and a field DB needs one.
C13_Witness ==
    /\ spc = "rendered"
    /\ NumParams(stubIface[1]) = 2
    /\ DeclaredIdents(rendered[1].ParamsString)[1] = <<"_", "_", "s", "q", "l">>
    /\ DeclaredFields(rendered[1].ParamsStruct)[2] = <<"_", "D", "B">>

\* The named type at the bottom of a type's pointer, slice and map layers.
BaseType(t) == [t EXCEPT !.Layers = << >>]

\* The parameter and result types of a method.
SignatureTypes(f) ==
    { f.Signature.Params[i].Type : i \in DOMAIN f.Signature.Params }
        \cup { f.Signature.Results[i] : i \in DOMAIN f.Signature.Results }

\* C14: after Check, every named type defined outside the input package
\* that occurs in a parameter or result type of the method, under any
\* nesting of pointer, slice and map layers, has its import path in
\* Dependencies and its package identifier in DependencyNames.
C14_NestedDependenciesRecorded ==
    spc # "check" =>
        \A m \in Methods : \A t \in SignatureTypes(stubIface[m]) :
            (BaseType(t).Pkg # EmptyString /\ BaseType(t).Path # OwnPath) =>
                /\ BaseType(t).Path \in dependencies
                /\ BaseType(t).Pkg \in dependencyNames

\* ---------------------------------------------------- accessor: properties
\* C15: what a caller does with the value a Calls accessor returned
\* (overwriting an element, appending to it) leaves the entries the stub
\* holds unchanged: once the stub exists, a log changes only in the append
\* step of an invocation of the delegating method.
C15_LogChangesOnlyByInvocation ==
    [][(spc # "gen" /\ calls' # calls) => spc = "append"]_vars

\* ------------------------------------------------------ Check: properties
InterfaceNames(pkg) == { pkg.Interfaces[j].Name : j \in DOMAIN pkg.Interfaces }

\* C16: Check extracts exactly one Interface per interface declaration of
\* the input package when the type list is empty, and exactly the
\* declarations whose name is in the type list when it is not; the blank
\* method is never extracted, and an interface left with zero methods is
\* still extracted and has a stub in the package's output.
C16_ExtractsDeclaredInterfaces ==
    /\ \A k \in DOMAIN pkgs :
         LET unit == inputDirs[k]
             wanted == IF types = {} THEN unit.Decls
                       ELSE { n \in unit.Decls : n \in types }
         IN  /\ InterfaceNames(pkgs[k]) = wanted
             /\ Len(pkgs[k].Interfaces) = Cardinality(wanted)
             /\ \A j \in DOMAIN pkgs[k].Interfaces :
                  LET declared == DeclaredMethods(unit.Name, pkgs[k].Interfaces[j].Name)
                      funcs == pkgs[k].Interfaces[j].Funcs
                  IN  /\ \A i \in DOMAIN funcs : funcs[i] # "_"
                      /\ Len(funcs) = Cardinality({ i \in DOMAIN declared : declared[i] # "_" })
                      /\ \A i \in DOMAIN declared :
                           declared[i] # "_" => \E h \in DOMAIN funcs : funcs[h] = declared[i]
    /\ \A k \in DOMAIN written :
         Len(written[k].Stubs) = Len(pkgs[k].Interfaces)

\* A run with the type list {X} over a package that declares X, with the
\* blank method only, and AX: X alone is extracted, with no methods, and
\* its stub is written.
C16_Witness ==
    /\ pc = "done"
    /\ types = { <<"X">> }
    /\ Len(inputDirs) = 1
    /\ inputDirs[1].Decls = { <<"X">>, <<"A", "X">> }
    /\ Len(pkgs[1].Interfaces) = 1
    /\ pkgs[1].Interfaces[1].Funcs = << >>
    /\ Len(written) = 1
    /\ Len(written[1].Stubs) = 1

\* ---------------------------------------------- duplicate pass: properties
\* The stub name of the interface at pos after the renames and before any
\* prefixing.
PostRenameName(pos) ==
    IF Directive(pos) # EmptyString THEN Directive(pos) ELSE IfaceAt(pkgs, pos).Name

\* C17: the duplicate-name pass decides from the stub names as they stand
\* after the renames: once it has run, an interface whose post-rename stub
\* name occurs more than once across all packages carries that name with
\* its package's public name in front, exactly once, and every other
\* interface carries its post-rename name unchanged, in whatever order the
\* duplicated names were processed.
C17_PrefixedExactlyOnce ==
    NamingFinished =>
        \A pos \in Positions(pkgs) :
            IfaceAt(pkgs, pos).StubName =
                IF defs[PostRenameName(pos)] > 1
                THEN publicize(PkgOf(pos).Name) \o PostRenameName(pos)
                ELSE PostRenameName(pos)

\* ------------------------------------------- backing functions: properties
\* The invocations whose backing function has started and not finished.
RunningFrames ==
    { stack[k] : k \in DOMAIN stack }
        \cup (IF spc = "running" \/ (spc = "panicked" /\ "Ord" \in DOMAIN cur)
              THEN {cur} ELSE {})

RecordOf(m, args) == CallRecord(stubIface[m], Bind(stubIface[m], args, Deps), Deps)

\* C18: with the backing field set, the call is appended before the
\* backing function starts: when the backing function of the i-th
\* invocation of a method starts, the method's log holds i entries, the
\* last one being this invocation's arguments; as long as it runs, also
\* while it invokes the stub again or panics, entry i is this invocation's;
\* and no entry ever leaves a log or changes, a panic of the backing
\* function included.
C18_AppendedBeforeBacking ==
    [][/\ (spc = "delegate" /\ spc' = "running") =>
            /\ Len(calls'[cur'.Method]) = cur'.Ord
            /\ calls'[cur'.Method][cur'.Ord] = RecordOf(cur'.Method, cur'.Args)
       /\ \A fr \in RunningFrames :
            /\ fr.Ord \in DOMAIN calls[fr.Method]
            /\ calls[fr.Method][fr.Ord] = RecordOf(fr.Method, fr.Args)
       /\ \A m \in DOMAIN calls : \A k \in DOMAIN calls[m] :
            /\ k \in DOMAIN calls'[m]
            /\ calls'[m][k] = calls[m][k]]_vars

\* The backing function of the first invocation of Do has invoked Do
\* again, with another argument, and the backing function of that second
\* invocation has panicked: the log holds both entries.
C18_Witness ==
    /\ spc = "panicked"
    /\ Len(stack) = 1
    /\ cur.Method = 1
    /\ stack[1].Method = 1
    /\ "Ord" \in DOMAIN cur
    /\ cur.Ord = 2
    /\ stack[1].Ord = 1
    /\ cur.Args # stack[1].Args
    /\ Len(calls[1]) = 2
    /\ calls[1][1] = RecordOf(1, stack[1].Args)
    /\ calls[1][2] = RecordOf(1, cur.Args)

\* ------------------------------------------------- forwarding: properties
\* C19: the delegating call rendered for a method passes the backing
\* field the identifiers the signature declares, in declaration order,
\* the last one followed by "..." when the method is variadic; so every
\* backing function that was run received exactly the argument list its
\* invocation was made with.
C19_ForwardsArguments ==
    spc # "gen" =>
        \A m \in Methods :
            LET f == stubIface[m]
                ids == DeclaredIdents(rendered[m].ParamsString)
                args == CallIdents(rendered[m].ParamNames)
            IN  /\ Len(args) = NumParams(f)
                /\ \A i \in 1..NumParams(f) :
                     args[i] = IF f.Signature.Variadic /\ i = NumParams(f)
                               THEN ids[i] \o <<"...">>
                               ELSE ids[i]
                /\ \A k \in DOMAIN ran[m] : ran[m][k] = passed[m][k]

PairwiseDistinct(seq) == \A i, j \in DOMAIN seq : seq[i] = seq[j] => i = j

DeclaredNames(f) == [i \in 1..NumParams(f) |-> f.Signature.Params[i].Name]

\* C20: renaming keeps names apart: for a rendered method whose declared
\* parameter names are pairwise distinct, the identifiers of the rendered
\* signature are pairwise distinct and the field names of the rendered
\* call record are pairwise distinct, whatever the dependency package
\* identifiers are.
C20_RenamingKeepsNamesApart ==
    spc = "rendered" =>
        \A m \in Methods :
            PairwiseDistinct(DeclaredNames(stubIface[m])) =>
                /\ PairwiseDistinct(DeclaredIdents(rendered[m].ParamsString))
                /\ PairwiseDistinct(DeclaredFields(rendered[m].ParamsStruct))

\* -------------------------------------------------- concurrency: properties
AllReturned == callers # << >> /\ \A c \in DOMAIN callers : callers[c].PC = "returned"

\* C21: when several goroutines invoke delegating methods of one stub
\* concurrently, the backing fields being set, no entry is lost: once all
\* the invocations have returned, the log of every method holds exactly one
\* entry per invocation of that method, under every interleaving.
C21_NoEntryLost ==
    AllReturned =>
        \A m \in Methods :
            Len(calls[m]) = Cardinality({ c \in DOMAIN callers : callers[c].Method = m })

====
